---- MODULE Spec2Model ----
(***************************************************************************)
(* Web-to-EPUB scraper: chapter discovery (Parser.extractChapters), the    *)
(* per-chapter fetch/retry loop (Parser.fetchChapterContent driven by      *)
(* WebToEpubApp.fetchAllChapters), the chapter check boxes, and the EPUB   *)
(* assembler (EpubGenerator.generateEpub) writing into its JSZip object.   *)
(*                                                                         *)
(* Text is a sequence of tokens (a word, a digit, a blank); a URL is a     *)
(* record of host and path; an href is absolute or relative.               *)
(***************************************************************************)
EXTENDS Integers, Sequences, FiniteSets, TLC

Null == "null"

(***************************************************************************)
(* Bounds of the model.                                                    *)
(***************************************************************************)
\* number of Load-and-Analyze clicks (conversions) in one behaviour
MaxRuns == 2
\* number of elements on a start page of the discovery specification
MaxLinks == 3

Runs == 1..MaxRuns

(***************************************************************************)
(* Text helpers.                                                           *)
(***************************************************************************)
Digit == {"0", "1", "2", "3", "4", "5", "6", "7", "8", "9"}

DigitVal(d) ==
    CASE d = "0" -> 0 [] d = "1" -> 1 [] d = "2" -> 2 [] d = "3" -> 3
      [] d = "4" -> 4 [] d = "5" -> 5 [] d = "6" -> 6 [] d = "7" -> 7
      [] d = "8" -> 8 [] d = "9" -> 9

DigitTok(n) ==
    CASE n = 0 -> "0" [] n = 1 -> "1" [] n = 2 -> "2" [] n = 3 -> "3"
      [] n = 4 -> "4" [] n = 5 -> "5" [] n = 6 -> "6" [] n = 7 -> "7"
      [] n = 8 -> "8" [] n = 9 -> "9"

\* String(n) for 0 <= n < 100, as digit tokens
NumberToText(n) ==
    IF n < 10 THEN <<DigitTok(n)>> ELSE <<DigitTok(n \div 10), DigitTok(n % 10)>>

Range(s) == {s[i] : i \in 1..Len(s)}

\* text.replace(/\s+/g, ' '): of a run of blanks one is kept
CollapseSpaces(t) ==
    LET Kept(p) == p[2]
        marked == [i \in 1..Len(t) |->
                      <<t[i], ~(i < Len(t) /\ t[i] = " " /\ t[i + 1] = " ")>>]
        kept == SelectSeq(marked, Kept)
    IN  [i \in 1..Len(kept) |-> kept[i][1]]

RECURSIVE TrimLeft(_)
TrimLeft(t) == IF t # <<>> /\ t[1] = " " THEN TrimLeft(Tail(t)) ELSE t

RECURSIVE TrimRight(_)
TrimRight(t) ==
    IF t # <<>> /\ t[Len(t)] = " " THEN TrimRight(SubSeq(t, 1, Len(t) - 1)) ELSE t

\* Utils.cleanText
cleanText(t) == TrimRight(TrimLeft(CollapseSpaces(t)))

\* position of the first digit token of t, 0 when there is none
FirstDigitPos(t) ==
    IF \E i \in 1..Len(t) : t[i] \in Digit
    THEN CHOOSE i \in 1..Len(t) :
            t[i] \in Digit /\ \A j \in 1..(i - 1) : t[j] \notin Digit
    ELSE 0

\* title.match(/\d+/) is not null
HasNumber(t) == FirstDigitPos(t) # 0

RECURSIVE DigitRunValue(_, _, _)
DigitRunValue(t, i, acc) ==
    IF i <= Len(t) /\ t[i] \in Digit
    THEN DigitRunValue(t, i + 1, acc * 10 + DigitVal(t[i]))
    ELSE acc

\* parseInt(title.match(/\d+/)[0])
FirstNumber(t) == DigitRunValue(t, FirstDigitPos(t), 0)

\* text.match(/ch\s*\d+/i): a "ch" token, blanks, then a digit
RECURSIVE DigitAfterBlanks(_, _)
DigitAfterBlanks(t, i) ==
    IF i > Len(t) THEN FALSE
    ELSE IF t[i] = " " THEN DigitAfterBlanks(t, i + 1)
    ELSE t[i] \in Digit

\* the filter of the aggressive scan on the anchor text
TextHasChapterToken(t) ==
    \/ "chapter" \in Range(t)
    \/ "ch." \in Range(t)
    \/ \E i \in 1..Len(t) : t[i] \in {"ch", "chapter"} /\ DigitAfterBlanks(t, i + 1)

(***************************************************************************)
(* URLs.                                                                   *)
(***************************************************************************)
NoHref == [abs |-> FALSE, host |-> "", path |-> Null]

Url(h, p) == [host |-> h, path |-> p]

\* Parser.resolveUrl: new URL(href, baseUrl).href
resolveUrl(href, baseUrl) ==
    IF href.abs THEN Url(href.host, href.path) ELSE Url(baseUrl.host, href.path)

\* href.includes('chapter') || href.match(/ch\d+/i) || href.match(/chapter-\d+/i)
HrefHasChapterToken(href) == href.path \in {"chapter-1", "chapter-2", "ch3"}

\* the attribute selector a[href*="chapter"]
HrefIncludesChapter(href) == href.path \in {"chapter-1", "chapter-2"}

(***************************************************************************)
(* The start page: its elements in document order.  An element has a tag,  *)
(* the class that selects it (its own class, or the class of the list      *)
(* container it sits in), an href attribute (NoHref when absent) and its   *)
(* text content.                                                           *)
(***************************************************************************)
Element(tag, cls, href, text) == [tag |-> tag, cls |-> cls, href |-> href, text |-> text]

Rel(p) == [abs |-> FALSE, host |-> "", path |-> p]
Abs(h, p) == [abs |-> TRUE, host |-> h, path |-> p]

\* Parser.siteSpecificRules[hostname].chapterSelectors, else the default rules'
SiteChapterSelectors(hostname) ==
    CASE hostname = "wuxiaworld.com" -> <<".chapter-item a", ".wp-manga-chapter a">>
      [] hostname = "royalroad.com" -> <<".chapter-row a">>
      [] hostname = "novelupdates.com" -> <<"#chapterlist a">>
      [] OTHER -> <<".chapter-list a", ".chapters a", "a[href*=chapter]",
                    ".chapter-link", ".novel-chapter a", ".story-chapter a">>

\* Parser.getDefaultRules().chapterSelectors
DefaultChapterSelectors ==
    <<".chapter-list a", ".chapters a", "a[href*=chapter]",
      ".chapter-link", ".novel-chapter a", ".story-chapter a">>

\* the container class of a descendant selector ".x a" ("" for the others)
ContainerOf(selector) ==
    CASE selector = ".chapter-item a" -> "chapter-item"
      [] selector = ".wp-manga-chapter a" -> "wp-manga-chapter"
      [] selector = ".chapter-row a" -> "chapter-row"
      [] selector = "#chapterlist a" -> "chapterlist"
      [] selector = ".chapter-list a" -> "chapter-list"
      [] selector = ".chapters a" -> "chapters"
      [] selector = ".novel-chapter a" -> "novel-chapter"
      [] selector = ".story-chapter a" -> "story-chapter"
      [] OTHER -> ""

\* does the element match the CSS selector
Matches(el, selector) ==
    CASE selector = "a[href*=chapter]" ->
            el.tag = "a" /\ el.href # NoHref /\ HrefIncludesChapter(el.href)
      [] selector = ".chapter-link" -> el.cls = "chapter-link"
      [] selector = "a[href]" -> el.tag = "a" /\ el.href # NoHref
      [] OTHER -> el.tag = "a" /\ el.cls = ContainerOf(selector)

\* dom.querySelectorAll(selector), in document order
querySelectorAll(dom, selector) == SelectSeq(dom, LAMBDA el : Matches(el, selector))

RECURSIVE AllMatchingSelectors(_, _, _)
\* the mutant gathers the links of every selector of the list
AllMatchingSelectors(dom, selectors, k) ==
    IF k > Len(selectors) THEN <<>>
    ELSE querySelectorAll(dom, selectors[k]) \o AllMatchingSelectors(dom, selectors, k + 1)

RECURSIVE FirstMatchingSelector(_, _, _)
\* the loop over a selector list: the links of the first selector that matches
FirstMatchingSelector(dom, selectors, k) ==
    IF k > Len(selectors) THEN <<>>
    ELSE IF Len(querySelectorAll(dom, selectors[k])) > 0
         THEN querySelectorAll(dom, selectors[k])
         ELSE FirstMatchingSelector(dom, selectors, k + 1)

\* the mutant keeps every anchor that has an href
AggressiveScanNoFilter(dom) == querySelectorAll(dom, "a[href]")

\* the aggressive approach: anchors whose text or href names a chapter
AggressiveScan(dom) ==
    SelectSeq(querySelectorAll(dom, "a[href]"),
              LAMBDA link : TextHasChapterToken(link.text) \/ HrefHasChapterToken(link.href))

\* allChapterLinks after the three strategies
AllChapterLinks(dom, hostname) ==
    LET site == FirstMatchingSelector(dom, SiteChapterSelectors(hostname), 1)
        dflt == IF Len(site) = 0 THEN FirstMatchingSelector(dom, DefaultChapterSelectors, 1)
                ELSE site
    IN  IF Len(dflt) = 0 THEN AggressiveScan(dom) ELSE dflt

\* the mutant looks the raw href attribute up in the set of processed URLs
DedupKeyRawHref(href, absoluteUrl) == Url(href.host, href.path)

\* the key looked up in, and added to, processedUrls
DedupKey(href, absoluteUrl) == absoluteUrl

\* the chapter title: the cleaned anchor text, else "Chapter <index + 1>"
ChapterTitle(text, index) ==
    IF cleanText(text) # <<>> THEN cleanText(text)
    ELSE <<"chapter", " ">> \o NumberToText(index + 1)

\* a chapter without content: content is null (or empty)
NoContent == <<>>

\* the record pushed for a link
NewChapter(absoluteUrl, baseUrl, title, index) ==
    [url |-> absoluteUrl, baseUrl |-> baseUrl, title |-> title, index |-> index,
     selected |-> TRUE, status |-> "pending", content |-> NoContent, error |-> Null]

RECURSIVE ProcessLinks(_, _, _, _, _)
\* allChapterLinks.forEach((link, index) => ...): pos = index + 1
ProcessLinks(links, baseUrl, pos, processedUrls, chapters) ==
    IF pos > Len(links) THEN chapters
    ELSE LET href == links[pos].href
             absoluteUrl == resolveUrl(href, baseUrl)
             key == DedupKey(href, absoluteUrl)
         IN  IF href = NoHref \/ key \in processedUrls
             THEN ProcessLinks(links, baseUrl, pos + 1, processedUrls, chapters)
             ELSE ProcessLinks(links, baseUrl, pos + 1, processedUrls \cup {key},
                               Append(chapters,
                                      NewChapter(absoluteUrl, baseUrl,
                                                 ChapterTitle(links[pos].text, pos - 1),
                                                 pos - 1)))

(***************************************************************************)
(* this.chapters.sort(comparator).                                         *)
(***************************************************************************)
\* the mutant compares the matched digit strings by their first digit only
CompareChaptersFirstDigit(a, b) ==
    IF HasNumber(a.title) /\ HasNumber(b.title)
    THEN DigitVal(a.title[FirstDigitPos(a.title)]) - DigitVal(b.title[FirstDigitPos(b.title)])
    ELSE a.index - b.index

\* the comparator: numeric when both titles hold an integer, else discovery order
CompareChapters(a, b) ==
    IF HasNumber(a.title) /\ HasNumber(b.title)
    THEN FirstNumber(a.title) - FirstNumber(b.title)
    ELSE a.index - b.index

RECURSIVE InsertChapter(_, _)
\* insertion of x behind every element that does not compare greater than it
InsertChapter(sorted, x) ==
    IF sorted = <<>> \/ CompareChapters(sorted[Len(sorted)], x) <= 0
    THEN Append(sorted, x)
    ELSE Append(InsertChapter(SubSeq(sorted, 1, Len(sorted) - 1), x), sorted[Len(sorted)])

RECURSIVE StableSort(_, _)
\* the stable sort of Array.prototype.sort (an insertion sort for short arrays)
StableSort(list, k) ==
    IF k = 0 THEN <<>> ELSE InsertChapter(StableSort(list, k - 1), list[k])

\* ECMAScript's "consistent comparison function" on the elements of the list
ConsistentComparator(list) ==
    \A i, j, k \in 1..Len(list) :
        /\ (CompareChapters(list[i], list[j]) = 0 /\ CompareChapters(list[j], list[k]) = 0)
              => CompareChapters(list[i], list[k]) = 0
        /\ (CompareChapters(list[i], list[j]) < 0 /\ CompareChapters(list[j], list[k]) < 0)
              => CompareChapters(list[i], list[k]) < 0
        /\ (CompareChapters(list[i], list[j]) > 0 /\ CompareChapters(list[j], list[k]) > 0)
              => CompareChapters(list[i], list[k]) > 0

Reorderings(list) ==
    {[i \in 1..Len(list) |-> list[f[i]]] :
        f \in {g \in [1..Len(list) -> 1..Len(list)] :
                  \A i, j \in 1..Len(list) : i # j => g[i] # g[j]}}

\* what sort() may leave: the stable order under a consistent comparator; with an
\* inconsistent one the order is implementation-defined (any permutation)
SortOutcomes(list) ==
    IF ConsistentComparator(list) THEN {StableSort(list, Len(list))}
    ELSE Reorderings(list)

\* Parser.extractChapters: it throws 'No chapters found on the page' or leaves
\* this.chapters
extractChapters(dom, baseUrl) ==
    LET links == AllChapterLinks(dom, baseUrl.host)
    IN  IF Len(links) = 0
        THEN {[threw |-> TRUE, chapters |-> <<>>]}
        ELSE {[threw |-> FALSE, chapters |-> sorted] :
                sorted \in SortOutcomes(ProcessLinks(links, baseUrl, 1, {}, <<>>))}

(***************************************************************************)
(* State.                                                                  *)
(***************************************************************************)
VARIABLES
    dPage, dUrl, dOut,      \* discovery on its own: the page, the URL, the result
    fArg, fRes,             \* a function applied on its own: its argument, its result
    gZip, gPc, gCall,       \* generateEpub called on its own: the cover and chapter
    gResult, gCalls,        \* entries of the zip, the call in progress, its outcome
    mParser, mShared,       \* parser.metaInfo; whether app.currentMetaInfo is that object
    mForm, mOverride,       \* the metadata form; what the user typed in this conversion
    mAfterParse, mHanded,   \* what parsePage returned; what generateEpub was handed
    mConversions,           \* number of conversions started
    started,                \* number of Load-and-Analyze clicks accepted so far
    pc,                     \* per conversion: where its handleLoadAndAnalyze is
    input,                  \* per conversion: the start URL and the page it serves
    failure,                \* per conversion: the error handleLoadAndAnalyze caught
    chs,                    \* per conversion: the chapter objects extractChapters made
    idx,                    \* per conversion: fetchAllChapters' i (as a position)
    retryCount,             \* per conversion: fetchChapterContent's retryCount
    successCount,           \* per conversion: fetchAllChapters' successCount
    errorCount,             \* per conversion: fetchAllChapters' errorCount
    tried,                  \* history: attempts begun, per conversion and chapter
    lastMsg,                \* history: message of the latest failed attempt of a
                            \* chapter whose fetchChapterContent has not returned
    returnedAt,             \* history: the attempt fetchChapterContent returned in
    parserChapters,         \* parser.chapters: the conversion whose list it is, or 0
    currentChapters,        \* app.currentChapters: likewise
    checked, disabled,      \* the check boxes #chapter-<i> of #chaptersList
    packEnabled,            \* the Generate-EPUB button is not disabled
    zip,                    \* epubGenerator.zip: the entries written so far
    packPc, packSelected, packI,  \* per Generate-EPUB click: its handlePackEpub /
                            \* generateEpub call, the chapters it took, addChapters' i
    packClicks,             \* number of Generate-EPUB clicks so far
    packResult,             \* the message shown last by handlePackEpub
    epubBlob                \* per Generate-EPUB click: the container it was handed

dvars == <<dPage, dUrl, dOut>>
fvars == <<fArg, fRes>>
gvars == <<gZip, gPc, gCall, gResult, gCalls>>
mvars == <<mParser, mShared, mForm, mOverride, mAfterParse, mHanded, mConversions>>
\* the parts modelled on their own
ownvars == <<fvars, gvars, mvars>>
loadvars == <<started, pc, input, failure, chs, idx, retryCount, successCount,
              errorCount, tried, lastMsg, returnedAt, parserChapters, currentChapters>>
uivars == <<checked, disabled, packEnabled>>
packvars == <<zip, packPc, packSelected, packI, packClicks, packResult, epubBlob>>
\* the conversion pipeline
pipevars == <<dvars, loadvars, uivars, packvars>>
vars == <<dvars, ownvars, loadvars, uivars, packvars>>

(***************************************************************************)
(* Bounds and inputs of the pipeline.                                      *)
(***************************************************************************)
\* number of Generate-EPUB clicks in one behaviour
MaxPacks == 2

\* the start pages served to Load-and-Analyze
PipelineInputs ==
    { [url |-> Url("example.org", "novel"),
       dom |-> << Element("a", "chapter-list", Rel("chapter-2"), <<"chapter", " ", "2">>),
                  Element("a", "chapter-list", Rel("chapter-1"), <<"q", "&", "a", " ", "1">>) >>],
      [url |-> Url("example.org", "blog"),
       dom |-> << Element("a", "", Rel("about"), <<"about">>) >>] }

NoInput == [url |-> Url("", ""), dom |-> <<>>]

\* how one fetch-and-extract attempt can end before the UI is updated
AttemptOutcomes == {"ok", "fetch", "notfound", "short"}

\* the message of the Error thrown by a failed attempt
ErrorMessage(outcome) ==
    CASE outcome = "fetch" -> "Failed to fetch content from all proxies"
      [] outcome = "notfound" -> "Could not find chapter content"
      [] outcome = "short" -> "Extracted content is too short or empty"
      [] OTHER -> "Cannot read properties of null"

\* the markup extractContent returns for the page at url
ExtractedContent(url) == <<"p", url.path>>

(***************************************************************************)
(* Parser.fetchChapterContent and WebToEpubApp.fetchAllChapters.           *)
(***************************************************************************)
\* the mutant allows one attempt more
maxRetriesPlusOne == 3 + 1

maxRetries == 3

\* the mutant rethrows after every failed attempt
RethrowsAlways(count) == TRUE

\* catch: at retryCount >= maxRetries the chapter is settled at 'error' ...
RetriesExhausted(count) == count >= maxRetries

\* ... and the error is thrown on to fetchAllChapters
RethrowsToCaller(count) == RetriesExhausted(count)

\* the mutant passes over the chapter after one in error
LoopSkipsAfterError(i, n) == i + 2

\* the mutant lets the error leave the loop
LoopAbortsOnError(i, n) == n + 1

\* fetchAllChapters: the catch swallows the error and the loop goes on with i + 1
LoopAfterError(i, n) == i + 1

\* this.chapters of the parser
ParserList(c, pch) == IF pch = 0 THEN <<>> ELSE c[pch]

\* updateChapterUI(index) throws a TypeError: no #chapter-<index> row, or
\* this.chapters[index] is undefined
UiThrows(c, pch, boxes, pos) ==
    \/ pos > Len(boxes)
    \/ pos > Len(ParserList(c, pch))

\* updateChapterUI: an 'error' chapter's box is unchecked
UiChecked(c, pch, boxes, pos) ==
    IF ParserList(c, pch)[pos].status = "error" THEN [boxes EXCEPT ![pos] = FALSE] ELSE boxes

\* updateChapterUI: an 'error' chapter's box is disabled, any other enabled
UiDisabled(c, pch, dis, pos) ==
    [dis EXCEPT ![pos] = (ParserList(c, pch)[pos].status = "error")]

\* handleLoadAndAnalyze up to the fetch of the start page
Load(in) ==
    /\ started < MaxRuns
    /\ started' = started + 1
    /\ pc' = [pc EXCEPT ![started + 1] = "parsing"]
    /\ input' = [input EXCEPT ![started + 1] = in]
    /\ currentChapters' = 0
    /\ checked' = <<>>
    /\ disabled' = <<>>
    /\ UNCHANGED <<failure, chs, idx, retryCount, successCount, errorCount, tried,
                   lastMsg, returnedAt, parserChapters, packEnabled>>
    /\ UNCHANGED <<dvars, ownvars, packvars>>

\* parsePage: every proxy failed
ParseFetchFails(r) ==
    /\ pc[r] = "parsing"
    /\ pc' = [pc EXCEPT ![r] = "failed"]
    /\ failure' = [failure EXCEPT ![r] = "FetchFailure"]
    /\ UNCHANGED <<started, input, chs, idx, retryCount, successCount, errorCount, tried,
                   lastMsg, returnedAt, parserChapters, currentChapters>>
    /\ UNCHANGED <<dvars, ownvars, uivars, packvars>>

\* parsePage: no chapter comes out of the page (extractChapters throws, or leaves
\* an empty list that handleLoadAndAnalyze rejects)
ParseNoChapters(r) ==
    /\ pc[r] = "parsing"
    /\ \E res \in extractChapters(input[r].dom, input[r].url) :
          /\ res.threw \/ Len(res.chapters) = 0
          /\ parserChapters' = IF res.threw THEN 0 ELSE r
    /\ pc' = [pc EXCEPT ![r] = "failed"]
    /\ failure' = [failure EXCEPT ![r] = "NoChaptersFound"]
    /\ UNCHANGED <<started, input, chs, idx, retryCount, successCount, errorCount, tried,
                   lastMsg, returnedAt, currentChapters>>
    /\ UNCHANGED <<dvars, ownvars, uivars, packvars>>

\* parsePage returns chapters: updateUIWithResults, then fetchAllChapters up to
\* the first fetch of the first chapter
ParseOk(r) ==
    /\ pc[r] = "parsing"
    /\ \E res \in extractChapters(input[r].dom, input[r].url) :
          /\ ~res.threw /\ Len(res.chapters) > 0
          /\ chs' = [chs EXCEPT ![r] = res.chapters]
          /\ checked' = [i \in 1..Len(res.chapters) |-> TRUE]
          /\ disabled' = [i \in 1..Len(res.chapters) |-> FALSE]
          /\ tried' = [tried EXCEPT ![r] = [i \in 1..Len(res.chapters) |-> IF i = 1 THEN 1 ELSE 0]]
          /\ lastMsg' = [lastMsg EXCEPT ![r] = [i \in 1..Len(res.chapters) |-> Null]]
          /\ returnedAt' = [returnedAt EXCEPT ![r] = [i \in 1..Len(res.chapters) |-> 0]]
    /\ parserChapters' = r
    /\ currentChapters' = r
    /\ pc' = [pc EXCEPT ![r] = "fetching"]
    /\ idx' = [idx EXCEPT ![r] = 1]
    /\ retryCount' = [retryCount EXCEPT ![r] = 0]
    /\ UNCHANGED <<started, input, failure, successCount, errorCount, packEnabled>>
    /\ UNCHANGED <<dvars, ownvars, packvars>>

\* one iteration of fetchChapterContent's while loop for chapter idx[r], from the
\* answer to its fetch to the next fetch of the conversion (the waits between
\* attempts and between chapters change nothing)
AttemptDone(r, outcome) ==
    /\ pc[r] = "fetching"
    /\ LET i == idx[r]
           n == Len(chs[r])
           accepted == outcome = "ok"
           chs1 == IF accepted
                   THEN [chs EXCEPT ![r][i].content = ExtractedContent(chs[r][i].url),
                                    ![r][i].status = "completed"]
                   ELSE chs
           uiThrew == accepted /\ UiThrows(chs1, parserChapters, checked, i)
           failed == ~accepted \/ uiThrew
           msg == IF accepted THEN ErrorMessage("ui") ELSE ErrorMessage(outcome)
           count == retryCount[r] + 1
           settles == failed /\ RetriesExhausted(count)
           rethrows == failed /\ RethrowsToCaller(count)
           chs2 == IF settles
                   THEN [chs1 EXCEPT ![r][i].status = "error", ![r][i].error = msg]
                   ELSE chs1
           uiRuns == (accepted \/ settles) /\ ~UiThrows(chs2, parserChapters, checked, i)
           returns == accepted /\ ~uiThrew
           callEnds == returns \/ rethrows
           next == IF returns THEN i + 1 ELSE LoopAfterError(i, n)
       IN  /\ chs' = chs2
           /\ checked' = IF uiRuns THEN UiChecked(chs2, parserChapters, checked, i) ELSE checked
           /\ disabled' = IF uiRuns THEN UiDisabled(chs2, parserChapters, disabled, i) ELSE disabled
           /\ lastMsg' = [lastMsg EXCEPT ![r][i] = IF failed THEN msg ELSE Null]
           /\ returnedAt' = IF returns THEN [returnedAt EXCEPT ![r][i] = tried[r][i]]
                            ELSE returnedAt
           /\ successCount' = IF returns THEN [successCount EXCEPT ![r] = @ + 1] ELSE successCount
           /\ errorCount' = IF rethrows THEN [errorCount EXCEPT ![r] = @ + 1] ELSE errorCount
           /\ IF ~callEnds
              THEN /\ retryCount' = [retryCount EXCEPT ![r] = count]
                   /\ tried' = [tried EXCEPT ![r][i] = @ + 1]
                   /\ UNCHANGED <<pc, idx, packEnabled>>
              ELSE IF next <= n
              THEN /\ idx' = [idx EXCEPT ![r] = next]
                   /\ retryCount' = [retryCount EXCEPT ![r] = 0]
                   /\ tried' = [tried EXCEPT ![r][next] = @ + 1]
                   /\ UNCHANGED <<pc, packEnabled>>
              ELSE /\ pc' = [pc EXCEPT ![r] = "done"]
                   /\ packEnabled' = (successCount'[r] # 0)
                   /\ UNCHANGED <<idx, retryCount, tried>>
    /\ UNCHANGED <<started, input, failure, parserChapters, currentChapters>>
    /\ UNCHANGED <<dvars, ownvars, packvars>>

(***************************************************************************)
(* The chapter check boxes.                                                *)
(***************************************************************************)
\* app.currentChapters
CurrentList == IF currentChapters = 0 THEN <<>> ELSE chs[currentChapters]

\* the user clicks an enabled check box
ToggleChapter(i) ==
    /\ i \in 1..Len(checked)
    /\ ~disabled[i]
    /\ checked' = [checked EXCEPT ![i] = ~@]
    /\ UNCHANGED <<disabled, packEnabled>>
    /\ UNCHANGED <<dvars, ownvars, loadvars, packvars>>

\* selectAllChapters: the boxes of the 'completed' chapters are checked
selectAllChapters ==
    /\ checked' = [i \in 1..Len(checked) |->
                     IF i <= Len(CurrentList) /\ CurrentList[i].status = "completed"
                     THEN TRUE ELSE checked[i]]
    /\ UNCHANGED <<disabled, packEnabled>>
    /\ UNCHANGED <<dvars, ownvars, loadvars, packvars>>

\* deselectAllChapters: every box is unchecked
deselectAllChapters ==
    /\ checked' = [i \in 1..Len(checked) |-> FALSE]
    /\ UNCHANGED <<disabled, packEnabled>>
    /\ UNCHANGED <<dvars, ownvars, loadvars, packvars>>

(***************************************************************************)
(* EpubGenerator.                                                          *)
(***************************************************************************)
RECURSIVE ReplaceAll(_, _, _)
\* text.replace(/c/g, entity) for a single character c
ReplaceAll(text, c, entity) ==
    IF text = <<>> THEN <<>>
    ELSE (IF Head(text) = c THEN entity ELSE <<Head(text)>>) \o ReplaceAll(Tail(text), c, entity)

\* the mutant escapes the ampersand after the other characters
escapeXmlAmpersandLast(text) ==
    ReplaceAll(ReplaceAll(ReplaceAll(ReplaceAll(ReplaceAll(text,
        "<", <<"&", "l", "t", ";">>),
        ">", <<"&", "g", "t", ";">>),
        "\"", <<"&", "q", "u", "o", "t", ";">>),
        "'", <<"&", "#", "3", "9", ";">>),
        "&", <<"&", "a", "m", "p", ";">>)

\* EpubGenerator.escapeXml: the five replacements in the order of the code
escapeXml(text) ==
    ReplaceAll(ReplaceAll(ReplaceAll(ReplaceAll(ReplaceAll(text,
        "&", <<"&", "a", "m", "p", ";">>),
        "<", <<"&", "l", "t", ";">>),
        ">", <<"&", "g", "t", ";">>),
        "\"", <<"&", "q", "u", "o", "t", ";">>),
        "'", <<"&", "#", "3", "9", ";">>)

\* EpubGenerator.processChapterContent
processChapterContent(content) ==
    IF content = NoContent THEN <<"p", "No content available.">>
    ELSE <<"xhtml">> \o content

\* addChapters: const chapterNumber = i + 1
chapterNumber(i) == i + 1

\* addMetadata: the manifest items of the chapters
ManifestItems(chapters) ==
    [k \in 1..Len(chapters) |-> [id |-> (k - 1) + 1, href |-> (k - 1) + 1]]

\* addMetadata: the spine
SpineItemrefs(chapters) == [k \in 1..Len(chapters) |-> [idref |-> (k - 1) + 1]]

\* addMetadata: the navMap of toc.ncx
NavPoints(chapters) ==
    [k \in 1..Len(chapters) |->
        [id |-> (k - 1) + 1, playOrder |-> (k - 1) + 1,
         label |-> escapeXml(chapters[k].title), src |-> (k - 1) + 1]]

\* addChapters: the document written for a chapter
ChapterXhtml(chapter) ==
    [title |-> escapeXml(chapter.title), body |-> processChapterContent(chapter.content)]

\* this.zip.file('OEBPS/chapter-<number>.xhtml', doc)
WriteDoc(docs, number, doc) ==
    [k \in (DOMAIN docs) \cup {number} |-> IF k = number THEN doc ELSE docs[k]]

EmptyZip ==
    [container |-> FALSE, opf |-> FALSE, manifest |-> <<>>, spine |-> <<>>,
     ncx |-> FALSE, navMap |-> <<>>, css |-> FALSE, docs |-> <<>>]

NoBlob == [produced |-> FALSE, entries |-> EmptyZip, chapters |-> <<>>]

\* the mutant leaves the status out of the filter
SelectedIgnoringStatus(list, boxes) ==
    SelectSeq([i \in 1..Len(list) |-> i], LAMBDA i : i <= Len(boxes) /\ boxes[i])

\* WebToEpubApp.getSelectedChapters, as positions in currentChapters
getSelectedChapters(list, boxes) ==
    SelectSeq([i \in 1..Len(list) |-> i],
              LAMBDA i : i <= Len(boxes) /\ boxes[i] /\ list[i].status = "completed")

\* the calls of handlePackEpub, in the order of the clicks
Packs == 1..MaxPacks

\* the chapter objects handed to generateEpub by call c, as they are now
PackChapters(c) ==
    [k \in 1..Len(packSelected[c]) |-> chs[packSelected[c][k][1]][packSelected[c][k][2]]]

\* handlePackEpub: nothing is selected
PackNothingSelected ==
    /\ packEnabled /\ packClicks < MaxPacks
    /\ Len(getSelectedChapters(CurrentList, checked)) = 0
    /\ packClicks' = packClicks + 1
    /\ packPc' = [packPc EXCEPT ![packClicks + 1] = "rejected"]
    /\ packResult' = "Please select at least one chapter"
    /\ UNCHANGED <<zip, packSelected, packI, epubBlob>>
    /\ UNCHANGED <<dvars, ownvars, loadvars, uivars>>

\* handlePackEpub, generateEpub: createEpubStructure, addMetadata and the first
\* round of addChapters, up to its sleep
PackStart ==
    /\ packEnabled /\ packClicks < MaxPacks
    /\ LET sel == getSelectedChapters(CurrentList, checked)
           chapters == [k \in 1..Len(sel) |-> CurrentList[sel[k]]]
       IN  /\ Len(sel) > 0
           /\ packSelected' = [packSelected EXCEPT ![packClicks + 1] =
                                  [k \in 1..Len(sel) |-> <<currentChapters, sel[k]>>]]
           /\ zip' = [container |-> TRUE, opf |-> TRUE,
                      manifest |-> ManifestItems(chapters),
                      spine |-> SpineItemrefs(chapters),
                      ncx |-> TRUE, navMap |-> NavPoints(chapters), css |-> TRUE,
                      docs |-> WriteDoc(zip.docs, chapterNumber(0), ChapterXhtml(chapters[1]))]
    /\ packClicks' = packClicks + 1
    /\ packPc' = [packPc EXCEPT ![packClicks + 1] = "adding"]
    /\ packI' = [packI EXCEPT ![packClicks + 1] = 1]
    /\ UNCHANGED <<packResult, epubBlob>>
    /\ UNCHANGED <<dvars, ownvars, loadvars, uivars>>

\* addChapters of call c: the next round of the loop, after the sleep
PackAddChapter(c) ==
    /\ packPc[c] = "adding"
    /\ packI[c] < Len(packSelected[c])
    /\ zip' = [zip EXCEPT !.docs = WriteDoc(zip.docs, chapterNumber(packI[c]),
                                            ChapterXhtml(PackChapters(c)[packI[c] + 1]))]
    /\ packI' = [packI EXCEPT ![c] = @ + 1]
    /\ UNCHANGED <<packPc, packSelected, packClicks, packResult, epubBlob>>
    /\ UNCHANGED <<dvars, ownvars, loadvars, uivars>>

\* addChapters of call c is through; zip.generateAsync gives the blob and
\* handlePackEpub hands it out
PackGenerate(c) ==
    /\ packPc[c] = "adding"
    /\ packI[c] = Len(packSelected[c])
    /\ epubBlob' = [epubBlob EXCEPT ![c] =
                       [produced |-> TRUE, entries |-> zip, chapters |-> PackChapters(c)]]
    /\ packResult' = "EPUB generated"
    /\ packPc' = [packPc EXCEPT ![c] = "done"]
    /\ packSelected' = [packSelected EXCEPT ![c] = <<>>]
    /\ packI' = [packI EXCEPT ![c] = 0]
    /\ UNCHANGED <<zip, packClicks>>
    /\ UNCHANGED <<dvars, ownvars, loadvars, uivars>>

(***************************************************************************)
(* Specifications.                                                         *)
(***************************************************************************)
NotRun == [threw |-> FALSE, chapters |-> <<>>, ran |-> FALSE]

\* no function was applied on its own
NotApplied == [done |-> FALSE]

NoFunction ==
    /\ fArg = <<>>
    /\ fRes = NotApplied

\* the zip of a new EpubGenerator, as far as generateEpub on its own goes
NewZip == [opfChapters |-> 0, coverEntry |-> FALSE, coverAsset |-> FALSE, docs |-> 0]

NoCall == [n |-> 0, cover |-> FALSE, callback |-> "works", fetch |-> "none"]

NoResult == [status |-> "none", entries |-> NewZip, call |-> NoCall]

NoGenerate ==
    /\ gZip = NewZip
    /\ gPc = "idle"
    /\ gCall = NoCall
    /\ gResult = NoResult
    /\ gCalls = 0

MetaFields == {"title", "author", "language"}

\* Parser.constructor: this.metaInfo
DefaultMetaInfo ==
    [f \in MetaFields |-> IF f = "language" THEN <<"en">> ELSE <<>>]

\* the inputs of index.html: empty but for the language, which holds en
EmptyForm == [f \in MetaFields |-> IF f = "language" THEN <<"en">> ELSE <<>>]

NoOverride == [f \in MetaFields |-> <<>>]

NoPage == [titleFound |-> FALSE, title |-> <<>>, authorFound |-> FALSE, author |-> <<>>]

NotParsed == [done |-> FALSE, meta |-> DefaultMetaInfo, page |-> NoPage]

NotHanded ==
    [done |-> FALSE, meta |-> DefaultMetaInfo, override |-> NoOverride,
     extracted |-> DefaultMetaInfo]

NoMeta ==
    /\ mParser = DefaultMetaInfo
    /\ mShared = FALSE
    /\ mForm = EmptyForm
    /\ mOverride = NoOverride
    /\ mAfterParse = NotParsed
    /\ mHanded = NotHanded
    /\ mConversions = 0

\* nothing is run on its own
InitOwn == NoFunction /\ NoGenerate /\ NoMeta

InitPipeline ==
    /\ started = 0
    /\ pc = [r \in Runs |-> "unused"]
    /\ input = [r \in Runs |-> NoInput]
    /\ failure = [r \in Runs |-> Null]
    /\ chs = [r \in Runs |-> <<>>]
    /\ idx = [r \in Runs |-> 0]
    /\ retryCount = [r \in Runs |-> 0]
    /\ successCount = [r \in Runs |-> 0]
    /\ errorCount = [r \in Runs |-> 0]
    /\ tried = [r \in Runs |-> <<>>]
    /\ lastMsg = [r \in Runs |-> <<>>]
    /\ returnedAt = [r \in Runs |-> <<>>]
    /\ parserChapters = 0
    /\ currentChapters = 0
    /\ checked = <<>>
    /\ disabled = <<>>
    /\ packEnabled = FALSE
    /\ zip = EmptyZip
    /\ packPc = [c \in Packs |-> "unused"]
    /\ packSelected = [c \in Packs |-> <<>>]
    /\ packI = [c \in Packs |-> 0]
    /\ packClicks = 0
    /\ packResult = Null
    /\ epubBlob = [c \in Packs |-> NoBlob]

\* a function is applied on its own to an argument drawn from args
InitFunction(args) ==
    /\ dPage = <<>>
    /\ dUrl = Url("", "")
    /\ dOut = NotRun
    /\ fArg \in args
    /\ fRes = NotApplied
    /\ NoGenerate
    /\ NoMeta
    /\ InitPipeline

Init ==
    /\ dPage = <<>>
    /\ dUrl = Url("", "")
    /\ dOut = NotRun
    /\ InitOwn
    /\ InitPipeline

Next ==
    \/ \E in \in PipelineInputs : Load(in)
    \/ \E r \in Runs : ParseFetchFails(r)
    \/ \E r \in Runs : ParseNoChapters(r)
    \/ \E r \in Runs : ParseOk(r)
    \/ \E r \in Runs, outcome \in {"ok", "fetch"} : AttemptDone(r, outcome)
    \/ \E i \in 1..Len(checked) : ToggleChapter(i)
    \/ selectAllChapters
    \/ deselectAllChapters
    \/ PackNothingSelected
    \/ PackStart
    \/ \E c \in Packs : PackAddChapter(c)
    \/ \E c \in Packs : PackGenerate(c)

Spec == Init /\ [][Next]_vars

\* the conversions alone, with every way an attempt can fail
NextFetch ==
    \/ \E in \in PipelineInputs : Load(in)
    \/ \E r \in Runs : ParseFetchFails(r)
    \/ \E r \in Runs : ParseNoChapters(r)
    \/ \E r \in Runs : ParseOk(r)
    \/ \E r \in Runs, outcome \in AttemptOutcomes : AttemptDone(r, outcome)

SpecFetch == Init /\ [][NextFetch]_vars

\* every fetch eventually returns or fails: the attempt a conversion waits for
\* ends
FetchesAnswer == \A r \in Runs : WF_vars(\E outcome \in AttemptOutcomes : AttemptDone(r, outcome))

SpecFetchFair == SpecFetch /\ FetchesAnswer

(***************************************************************************)
(* Discovery on its own: a start page and a start URL are drawn, and       *)
(* Parser.extractChapters is applied to them.                              *)
(***************************************************************************)
Hosts == {"wuxiaworld.com", "example.org"}

\* the elements a drawn start page is made of
PageElements ==
    { Element("a", "chapter-list", Rel("chapter-2"), <<"chapter", " ", "2">>),
      Element("a", "chapter-list", Abs("example.org", "chapter-2"), <<"chapter", " ", "2">>),
      Element("a", "chapter-list", Rel("chapter-1"), <<"chapter", " ", "1">>),
      Element("a", "chapter-list", Rel("p10"), <<"chapter", " ", "1", "0">>),
      Element("a", "chapter-list", Rel("prologue"), <<"prologue">>),
      Element("a", "chapter-list", Rel("cover"), <<" ">>),
      Element("a", "chapter-item", Rel("chapter-1"), <<"chapter", " ", "1">>),
      Element("a", "", Rel("ch3"), <<"next">>),
      Element("a", "", Rel("about"), <<"about">>),
      Element("span", "chapter-link", NoHref, <<"chapter", " ", "1">>) }

RECURSIVE PagesOfLength(_)
PagesOfLength(n) ==
    IF n = 0 THEN {<<>>}
    ELSE {Append(page, e) : page \in PagesOfLength(n - 1), e \in PageElements}

Pages == UNION {PagesOfLength(n) : n \in 0..MaxLinks}

InitDiscover ==
    /\ dPage \in Pages
    /\ dUrl \in {Url(h, "novel") : h \in Hosts}
    /\ dOut = NotRun
    /\ InitOwn
    /\ InitPipeline

Discover ==
    /\ ~dOut.ran
    /\ \E res \in extractChapters(dPage, dUrl) :
          dOut' = [threw |-> res.threw, chapters |-> res.chapters, ran |-> TRUE]
    /\ UNCHANGED <<dPage, dUrl>>
    /\ UNCHANGED <<ownvars, loadvars, uivars, packvars>>

SpecDiscover == InitDiscover /\ [][Discover]_vars

(***************************************************************************)
(* EpubGenerator.escapeXml on its own: a string is drawn and escaped.      *)
(***************************************************************************)
\* length of the strings drawn
MaxText == 4

\* the characters of the strings drawn
TextChars == {"&", "<", ">", "\"", "'", "l", "t", ";"}

RECURSIVE TextsOfLength(_)
TextsOfLength(n) ==
    IF n = 0 THEN {<<>>}
    ELSE {Append(t, c) : t \in TextsOfLength(n - 1), c \in TextChars}

Texts == UNION {TextsOfLength(n) : n \in 0..MaxText}

InitEscape == InitFunction(Texts)

ApplyEscapeXml ==
    /\ ~fRes.done
    /\ fRes' = [done |-> TRUE, out |-> escapeXml(fArg)]
    /\ UNCHANGED <<fArg, gvars, mvars, pipevars>>

SpecEscape == InitEscape /\ [][ApplyEscapeXml]_vars

(***************************************************************************)
(* The text fields generateEpub writes: metadata and a chapter title are   *)
(* drawn, and addMetadata and addChapters write them.                      *)
(***************************************************************************)
\* the texts a field is drawn from
FieldTexts == {<<>>, <<"t">>, <<"<">>, <<"&">>}

\* addMetadata: the text fields of the metadata element of content.opf
ContentOpfFields(metaInfo) ==
    [title |-> escapeXml(metaInfo.title),
     creator |-> escapeXml(metaInfo.author),
     language |-> metaInfo.language,
     description |-> escapeXml(metaInfo.description),
     subject |-> escapeXml(metaInfo.subject)]

\* addMetadata: the text fields of toc.ncx
TocNcxFields(metaInfo, chapters) ==
    [docTitle |-> escapeXml(metaInfo.title),
     navLabels |-> [k \in 1..Len(chapters) |-> NavPoints(chapters)[k].label]]

InitFields ==
    InitFunction([title : FieldTexts, author : FieldTexts, language : FieldTexts,
                  description : FieldTexts, subject : FieldTexts,
                  chapterTitle : FieldTexts \ {<<>>}])

\* generateEpub as far as the text fields go
WriteFields ==
    /\ ~fRes.done
    /\ LET chapters == <<[title |-> fArg.chapterTitle, content |-> <<"p">>]>>
       IN  fRes' = [done |-> TRUE,
                    opf |-> ContentOpfFields(fArg),
                    ncx |-> TocNcxFields(fArg, chapters),
                    doc |-> ChapterXhtml(chapters[1])]
    /\ UNCHANGED <<fArg, gvars, mvars, pipevars>>

SpecFields == InitFields /\ [][WriteFields]_vars

(***************************************************************************)
(* EpubGenerator.generateEpub called on its own, one call after the other  *)
(* on one generator: the chapter and cover entries of its zip.             *)
(***************************************************************************)
\* number of generateEpub calls in one behaviour
MaxGenerate == 2
\* number of chapters handed to a call
MaxGenChapters == 2

\* the onProgress argument: a working function, one that throws, or none
Callbacks == {"works", "throws", "missing"}

\* how the download of the cover can end
CoverOutcomes == {"ok", "http", "exception", "empty"}

GenInputs ==
    [n : 1..MaxGenChapters, cover : BOOLEAN, callback : Callbacks, fetch : {"none"}]

\* onProgress(percentage, message) throws: the callback throws, or is undefined
ProgressThrows(callback) == callback # "works"

\* addMetadata: the cover meta and manifest item are written when
\* metaInfo.coverImageUrl is set
CoverEntryWritten(coverImageUrl, z) == coverImageUrl

\* generateEpub up to the cover: the first onProgress, createEpubStructure,
\* addMetadata and addChapters
GenerateCall(in) ==
    /\ gPc = "idle" /\ gCalls < MaxGenerate
    /\ gCalls' = gCalls + 1
    /\ gCall' = in
    /\ IF ProgressThrows(in.callback)
       THEN /\ gResult' = [status |-> "failed", entries |-> NewZip, call |-> in]
            /\ UNCHANGED <<gZip, gPc>>
       ELSE /\ gZip' = [opfChapters |-> in.n,
                        coverEntry |-> CoverEntryWritten(in.cover, gZip),
                        coverAsset |-> gZip.coverAsset,
                        docs |-> IF in.n > gZip.docs THEN in.n ELSE gZip.docs]
            /\ gPc' = IF in.cover THEN "cover" ELSE "zip"
            /\ UNCHANGED gResult
    /\ UNCHANGED <<fvars, mvars, pipevars>>

\* addCoverImage: the download ends; cover.jpg is written when it gave content
GenerateCover(outcome) ==
    /\ gPc = "cover"
    /\ gCall' = [gCall EXCEPT !.fetch = outcome]
    /\ gZip' = IF outcome = "ok" THEN [gZip EXCEPT !.coverAsset = TRUE] ELSE gZip
    /\ gPc' = "zip"
    /\ UNCHANGED <<gResult, gCalls>>
    /\ UNCHANGED <<fvars, mvars, pipevars>>

\* zip.generateAsync: the container is returned
GenerateZip ==
    /\ gPc = "zip"
    /\ gResult' = [status |-> "returned", entries |-> gZip, call |-> gCall]
    /\ gPc' = "idle"
    /\ UNCHANGED <<gZip, gCall, gCalls>>
    /\ UNCHANGED <<fvars, mvars, pipevars>>

InitGenerate ==
    /\ dPage = <<>>
    /\ dUrl = Url("", "")
    /\ dOut = NotRun
    /\ InitOwn
    /\ InitPipeline

NextGenerate ==
    \/ \E in \in GenInputs : GenerateCall(in)
    \/ \E outcome \in CoverOutcomes : GenerateCover(outcome)
    \/ GenerateZip

SpecGenerate == InitGenerate /\ [][NextGenerate]_vars

(***************************************************************************)
(* Parser.extractContent: the chapter body as a tree of nodes.  A node is  *)
(* an element with a tag and children, a text node or a comment node.  The *)
(* selectors of the source that go by class or id need attributes, which   *)
(* the nodes here do not carry: the elements are told apart by tag.  Text  *)
(* is made of the letter x and blanks, which innerHTML writes as they are. *)
(***************************************************************************)
Element_(tag, kids) == [kind |-> "element", tag |-> tag, text |-> <<>>, kids |-> kids]
TextNode(t) == [kind |-> "text", tag |-> "", text |-> t, kids |-> <<>>]
CommentNode(t) == [kind |-> "comment", tag |-> "", text |-> t, kids |-> <<>>]

\* the tag selectors of unwantedSelectors
UnwantedTags == {"script", "style", "iframe", "form", "button", "input"}

\* querySelectorAll(selector) matches elements only
Unwanted(node) == node.kind = "element" /\ node.tag \in UnwantedTags

RECURSIVE RemoveUnwanted(_)
\* unwantedSelectors.forEach(selector => querySelectorAll(selector).forEach(el => el.remove()))
RemoveUnwanted(kids) ==
    IF kids = <<>> THEN <<>>
    ELSE LET h == Head(kids) IN
         IF Unwanted(h) THEN RemoveUnwanted(Tail(kids))
         ELSE <<[h EXCEPT !.kids = RemoveUnwanted(h.kids)]>> \o RemoveUnwanted(Tail(kids))

RECURSIVE NormaliseText(_)
\* every text node: textContent.replace(/\s+/g, ' ').trim()
NormaliseText(kids) ==
    IF kids = <<>> THEN <<>>
    ELSE LET h == Head(kids) IN
         <<IF h.kind = "text"
           THEN [h EXCEPT !.text = TrimRight(TrimLeft(CollapseSpaces(h.text)))]
           ELSE [h EXCEPT !.kids = NormaliseText(h.kids)]>> \o NormaliseText(Tail(kids))

RECURSIVE HasDescendant(_, _)
\* el.querySelector(tags): some descendant element has one of the tags
HasDescendant(kids, tags) ==
    \E i \in 1..Len(kids) :
        /\ kids[i].kind = "element"
        /\ kids[i].tag \in tags \/ HasDescendant(kids[i].kids, tags)

RECURSIVE DivsToParagraphs(_)
\* a div without div, p, img or table inside becomes a p with the same content
DivsToParagraphs(kids) ==
    IF kids = <<>> THEN <<>>
    ELSE LET h == Head(kids) IN
         <<IF h.kind = "element" /\ h.tag = "div"
              /\ ~HasDescendant(h.kids, {"div", "p", "img", "table"})
           THEN [h EXCEPT !.tag = "p"]
           ELSE [h EXCEPT !.kids = DivsToParagraphs(h.kids)]>> \o DivsToParagraphs(Tail(kids))

\* textContent.trim() is empty
Blank(t) == \A i \in 1..Len(t) : t[i] = " "

\* the child nodes of the root: a text node with text becomes <p>text</p>
WrapTopLevelText(kids) ==
    [i \in 1..Len(kids) |->
        IF kids[i].kind = "text" /\ ~Blank(kids[i].text)
        THEN Element_("p", <<TextNode(TrimRight(TrimLeft(kids[i].text)))>>)
        ELSE kids[i]]

RECURSIVE textContent(_)
\* the text of the text nodes below, in document order; comments have no part
textContent(kids) ==
    IF kids = <<>> THEN <<>>
    ELSE LET h == Head(kids) IN
         (IF h.kind = "text" THEN h.text
          ELSE IF h.kind = "element" THEN textContent(h.kids)
          ELSE <<>>) \o textContent(Tail(kids))

\* !el.textContent.trim() && !el.querySelector('img'); querySelector looks at the
\* descendants of el, not at el
EmptyElement(node) ==
    /\ node.kind = "element"
    /\ Blank(textContent(node.kids))
    /\ ~HasDescendant(node.kids, {"img"})

RECURSIVE RemoveEmpty(_)
\* querySelectorAll('*').forEach in document order: an element is looked at before
\* its descendants, and goes with them when it is empty
RemoveEmpty(kids) ==
    IF kids = <<>> THEN <<>>
    ELSE LET h == Head(kids) IN
         IF EmptyElement(h) THEN RemoveEmpty(Tail(kids))
         ELSE <<[h EXCEPT !.kids = RemoveEmpty(h.kids)]>> \o RemoveEmpty(Tail(kids))

\* Parser.extractContent up to the fragment whose innerHTML it returns
ExtractedFragment(kids) ==
    RemoveEmpty(WrapTopLevelText(DivsToParagraphs(NormaliseText(RemoveUnwanted(kids)))))

\* Parser.removeUnwantedElements (tag selectors)
removeUnwantedElements(kids) == RemoveEmpty(RemoveUnwanted(kids))

TagChars(tag) ==
    CASE tag = "p" -> <<"p">>
      [] tag = "b" -> <<"b">>
      [] tag = "div" -> <<"d", "i", "v">>
      [] tag = "img" -> <<"i", "m", "g">>
      [] tag = "span" -> <<"s", "p", "a", "n">>
      [] tag = "script" -> <<"s", "c", "r", "i", "p", "t">>
      [] OTHER -> <<"?">>

RECURSIVE innerHTML(_)
\* the markup of the child nodes; img is a void element
innerHTML(kids) ==
    IF kids = <<>> THEN <<>>
    ELSE LET h == Head(kids) IN
         (IF h.kind = "text" THEN h.text
          ELSE IF h.kind = "comment" THEN <<"<", "!", "-", "-">> \o h.text \o <<"-", "-", ">">>
          ELSE IF h.tag = "img" THEN <<"<">> \o TagChars(h.tag) \o <<">">>
          ELSE <<"<">> \o TagChars(h.tag) \o <<">">> \o innerHTML(h.kids)
               \o <<"<", "/">> \o TagChars(h.tag) \o <<">">>) \o innerHTML(Tail(kids))

\* Parser.extractContent
extractContent(kids) == innerHTML(ExtractedFragment(kids))

RECURSIVE ParseFragment(_)
\* the child nodes of an element whose innerHTML is the markup of kids: a text node
\* without text is not written, text nodes written side by side are read as one
ParseFragment(kids) ==
    IF kids = <<>> THEN <<>>
    ELSE LET h == Head(kids)
             rest == ParseFragment(Tail(kids))
         IN  IF h.kind = "text"
             THEN IF h.text = <<>> THEN rest
                  ELSE IF rest # <<>> /\ rest[1].kind = "text"
                       THEN <<TextNode(h.text \o rest[1].text)>> \o Tail(rest)
                       ELSE <<h>> \o rest
             ELSE <<[h EXCEPT !.kids = ParseFragment(h.kids)]>> \o rest

\* number of child nodes of the content element
MaxNodes == 2

X(n) == [i \in 1..n |-> "x"]

\* the node shapes the content element is built from
NodeShapes ==
    {TextNode(X(1)), TextNode(<<" ">>), TextNode(<<" ", "x", " ">>),
     CommentNode(X(1)),
     Element_("script", <<TextNode(X(1))>>),
     Element_("img", <<>>),
     Element_("span", <<>>),
     Element_("p", <<TextNode(X(1))>>),
     Element_("p", <<Element_("img", <<>>)>>),
     Element_("p", <<TextNode(X(1)), CommentNode(X(1))>>),
     Element_("div", <<TextNode(X(1))>>),
     Element_("div", <<Element_("p", <<TextNode(X(1))>>), Element_("span", <<>>)>>),
     Element_("div", <<Element_("script", <<>>), TextNode(<<" ">>)>>)}

RECURSIVE NodesOfLength(_, _)
NodesOfLength(shapes, n) ==
    IF n = 0 THEN {<<>>}
    ELSE {<<h>> \o t : h \in shapes, t \in NodesOfLength(shapes, n - 1)}

\* the content elements of up to MaxNodes child nodes
InitExtract == InitFunction(UNION {NodesOfLength(NodeShapes, n) : n \in 0..MaxNodes})

ApplyExtractContent ==
    /\ fRes = NotApplied
    /\ fRes' = [done |-> TRUE, fragment |-> ExtractedFragment(fArg),
                content |-> extractContent(fArg),
                again |-> extractContent(ParseFragment(ExtractedFragment(fArg)))]
    /\ UNCHANGED <<fArg, gvars, mvars, pipevars>>

SpecExtract == InitExtract /\ [][ApplyExtractContent]_vars

(***************************************************************************)
(* Parser.fetchChapterContent: the length check on the extracted content.  *)
(***************************************************************************)
\* content.trim().length < 100
MinContentLength == 100

\* lengths of the text runs of the chapter bodies
BodyTextLengths == {50, 93, 99, 100}

BodyShapes ==
    UNION {{TextNode(X(n)), Element_("p", <<TextNode(X(n))>>),
            Element_("div", <<Element_("p", <<TextNode(X(n))>>)>>)} : n \in BodyTextLengths}

\* if (!content || content.trim().length < 100) throw
TooShort(content) ==
    content = <<>> \/ Len(TrimRight(TrimLeft(content))) < MinContentLength

\* the chapter bodies of up to MaxNodes child nodes
InitTooShort == InitFunction(UNION {NodesOfLength(BodyShapes, n) : n \in 1..MaxNodes})

\* removeUnwantedElements(contentElement); content = extractContent(contentElement);
\* the length check
CheckContentLength ==
    /\ fRes = NotApplied
    /\ LET cleaned == removeUnwantedElements(fArg)
           content == extractContent(cleaned)
       IN  fRes' = [done |-> TRUE, fragment |-> ExtractedFragment(cleaned),
                    content |-> content, rejected |-> TooShort(content)]
    /\ UNCHANGED <<fArg, gvars, mvars, pipevars>>

SpecTooShort == InitTooShort /\ [][CheckContentLength]_vars

(***************************************************************************)
(* Parser.findLargestTextBlock: the document as the list of its elements   *)
(* in document order, each with its tag, class, id, the length of its      *)
(* trimmed text and the length of its inner markup.                        *)
(***************************************************************************)
\* number of elements of the document
MaxBlocks == 2

contentTags == <<"article", "div", "section", "main">>

BlockTags == Range(contentTags) \cup {"p"}

\* class names and ids of the elements
ClassNames == {"", "SideBar"}
Ids == {"", "comments"}

\* className.toLowerCase(), id.toLowerCase()
toLowerCase(name) == IF name = "SideBar" THEN "sidebar" ELSE name

\* the names above that include one of skipPatterns ('sidebar', 'comment')
IncludesSkipPattern(name) == name \in {"sidebar", "comments"}

\* <<length of the trimmed text, length of innerHTML>>: densities 0.62, 0.4, 0.5,
\* 0.86, and an element without content
Measures == {<<500, 806>>, <<500, 1250>>, <<500, 1000>>, <<600, 700>>, <<0, 0>>}

Blocks ==
    [tag : BlockTags, className : ClassNames, id : Ids, text : {m[1] : m \in Measures},
     html : {m[2] : m \in Measures}]

MeasuredBlocks == {b \in Blocks : <<b.text, b.html>> \in Measures}

\* Parser.isLikelyContent: text.length / html.length > 0.5; 0 / 0 is NaN, which is
\* not above 0.5
isLikelyContent(element) ==
    /\ ~IncludesSkipPattern(toLowerCase(element.className))
    /\ ~IncludesSkipPattern(toLowerCase(element.id))
    /\ element.html > 0 /\ 2 * element.text > element.html

\* dom.getElementsByTagName(tag): the positions of the elements with the tag, in
\* document order
getElementsByTagName(dom, tag) ==
    LET HasTag(i) == dom[i].tag = tag
    IN  SelectSeq([i \in 1..Len(dom) |-> i], HasTag)

RECURSIVE ScanElements(_, _, _, _)
\* the inner loop: a likely-content element with a longer text than any before it
\* becomes the best
ScanElements(dom, elements, maxLength, bestElement) ==
    IF elements = <<>> THEN <<maxLength, bestElement>>
    ELSE LET element == dom[Head(elements)] IN
         IF isLikelyContent(element) /\ element.text > maxLength
         THEN ScanElements(dom, Tail(elements), element.text, Head(elements))
         ELSE ScanElements(dom, Tail(elements), maxLength, bestElement)

RECURSIVE ScanTags(_, _, _, _)
\* the outer loop over contentTags
ScanTags(dom, tags, maxLength, bestElement) ==
    IF tags = <<>> THEN bestElement
    ELSE LET found == ScanElements(dom, getElementsByTagName(dom, Head(tags)),
                                   maxLength, bestElement)
         IN  ScanTags(dom, Tail(tags), found[1], found[2])

\* Parser.findLargestTextBlock: the position of the element returned, 0 for null
findLargestTextBlock(dom) == ScanTags(dom, contentTags, 0, 0)

\* the documents of up to MaxBlocks elements
InitLargest == InitFunction(UNION {NodesOfLength(MeasuredBlocks, n) : n \in 0..MaxBlocks})

ApplyFindLargestTextBlock ==
    /\ fRes = NotApplied
    /\ fRes' = [done |-> TRUE, best |-> findLargestTextBlock(fArg)]
    /\ UNCHANGED <<fArg, gvars, mvars, pipevars>>

SpecLargest == InitLargest /\ [][ApplyFindLargestTextBlock]_vars

(***************************************************************************)
(* The percentages a stage reports to the progress display, in the order   *)
(* of the calls of Utils.updateProgress and of onProgress, which            *)
(* handlePackEpub passes on to Utils.updateProgress.  A percentage is a    *)
(* fraction <<numerator, denominator>>.                                     *)
(***************************************************************************)
\* number of chapters of a stage
MaxStageChapters == 3

\* the length of proxyUrls
NumProxies == 6

Percent(p) == <<p, 1>>

\* Parser.parsePage: 0 before each proxy tried, then 30, 50, 70, and 100 unless
\* extractChapters throws
ParsePageReports(in) ==
    [i \in 1..in.proxies |-> Percent(0)]
    \o (IF ~in.fetched THEN <<>>
        ELSE <<Percent(30), Percent(50), Percent(70)>>
             \o (IF in.found THEN <<Percent(100)>> ELSE <<>>))

\* WebToEpubApp.fetchAllChapters: ((i + 1) / chapters.length) * 100 before each
\* chapter, then 100
FetchAllReports(in) ==
    [k \in 1..in.n |-> <<k * 100, in.n>>] \o <<Percent(100)>>

\* EpubGenerator.addCoverImage: 0 before the download, 100 once cover.jpg is
\* written
CoverReports(outcome) ==
    <<Percent(0)>> \o (IF outcome = "ok" THEN <<Percent(100)>> ELSE <<>>)

\* EpubGenerator.generateEpub: 0, 20, 30, 30 + (i / chapters.length) * 60 before
\* each chapter, 90 and the cover download when there is a cover, 95, 100
GenerateReports(in) ==
    <<Percent(0), Percent(20), Percent(30)>>
    \o [k \in 1..in.n |-> <<30 * in.n + (k - 1) * 60, in.n>>]
    \o (IF in.cover THEN <<Percent(90)>> \o CoverReports(in.fetch) ELSE <<>>)
    \o <<Percent(95), Percent(100)>>

StageReports(in) ==
    CASE in.stage = "parsePage" -> ParsePageReports(in)
      [] in.stage = "fetchAllChapters" -> FetchAllReports(in)
      [] in.stage = "generateEpub" -> GenerateReports(in)

\* what a stage runs on: the proxies tried and whether one answered and chapters
\* were found; the number of chapters; the cover and how its download ends
StageInputs ==
    {[stage |-> "parsePage", proxies |-> k, fetched |-> f, found |-> c, n |-> 0,
      cover |-> FALSE, fetch |-> "none"] :
        k \in 1..NumProxies, f \in BOOLEAN, c \in BOOLEAN}
    \cup {[stage |-> "fetchAllChapters", proxies |-> 0, fetched |-> FALSE, found |-> FALSE,
           n |-> n, cover |-> FALSE, fetch |-> "none"] : n \in 0..MaxStageChapters}
    \cup {[stage |-> "generateEpub", proxies |-> 0, fetched |-> FALSE, found |-> FALSE,
           n |-> n, cover |-> FALSE, fetch |-> "none"] : n \in 1..MaxStageChapters}
    \cup {[stage |-> "generateEpub", proxies |-> 0, fetched |-> FALSE, found |-> FALSE,
           n |-> n, cover |-> TRUE, fetch |-> o] :
             n \in 1..MaxStageChapters, o \in CoverOutcomes}

\* a proxy that answered ends the loop; without an answer all proxies were tried
\* and nothing was looked for
RunnableStage(in) ==
    in.stage = "parsePage" =>
        /\ ~in.fetched => in.proxies = NumProxies
        /\ in.found => in.fetched

InitProgress == InitFunction({in \in StageInputs : RunnableStage(in)})

\* the stage's next report reaches the display
Report ==
    LET reported == IF fRes.done THEN fRes.reported ELSE <<>>
        all == StageReports(fArg)
    IN  /\ Len(reported) < Len(all)
        /\ fRes' = [done |-> TRUE, reported |-> SubSeq(all, 1, Len(reported) + 1)]
        /\ UNCHANGED <<fArg, gvars, mvars, pipevars>>

SpecProgress == InitProgress /\ [][Report]_vars

(***************************************************************************)
(* The book metadata over a sequence of conversions: parser.metaInfo, the  *)
(* metadata form and what handlePackEpub hands to generateEpub.  Of the    *)
(* fields, title and author are looked for in the start page and language *)
(* is not; description and cover go as author does, subject as language.   *)
(***************************************************************************)
\* number of conversions in one behaviour
MaxConversions == 2

\* what a start page gives: whether the title and author elements are there, and
\* their text
StartPages ==
    {[titleFound |-> tf, title |-> t, authorFound |-> af, author |-> a] :
        tf \in BOOLEAN, t \in {<<>>, <<"A">>},
        af \in BOOLEAN, a \in {<<>>, <<"A">>}}

\* an element that is not there has no text
WellFormedPage(page) ==
    /\ ~page.titleFound => page.title = <<>>
    /\ ~page.authorFound => page.author = <<>>

\* what the user types into a field
UserTexts == {<<>>, <<"U">>}

\* Parser.extractMetadata: a field is assigned when its element is found; an empty
\* title becomes the placeholder
extractMetadata(metaInfo, page) ==
    LET found == [metaInfo EXCEPT
                     !["title"] = IF page.titleFound THEN page.title ELSE @,
                     !["author"] = IF page.authorFound THEN page.author ELSE @]
    IN  [found EXCEPT !["title"] = IF @ = <<>> THEN <<"Untitled Story">> ELSE @]

\* WebToEpubApp.updateFormFields: a field is set when the value is not empty
updateFormFields(form, metaInfo) ==
    [f \in MetaFields |->
        LET value == IF f = "language" /\ metaInfo[f] = <<>> THEN <<"en">> ELSE metaInfo[f]
        IN  IF value # <<>> THEN value ELSE form[f]]

\* WebToEpubApp.updateMetaInfo: every field of currentMetaInfo becomes
\* field.value.trim()
updateMetaInfo(form) == [f \in MetaFields |-> TrimRight(TrimLeft(form[f]))]

\* handleLoadAndAnalyze: currentMetaInfo = {}, parsePage, updateUIWithResults
Analyze(page) ==
    /\ mConversions < MaxConversions
    /\ mConversions' = mConversions + 1
    /\ LET metaInfo == extractMetadata(mParser, page)
       IN  /\ mParser' = metaInfo
           /\ mAfterParse' = [done |-> TRUE, meta |-> metaInfo, page |-> page]
           /\ mForm' = updateFormFields(mForm, metaInfo)
    /\ mShared' = TRUE
    /\ mOverride' = NoOverride
    /\ UNCHANGED mHanded
    /\ UNCHANGED <<fvars, gvars, pipevars>>

\* handleLoadAndAnalyze when parsePage throws: before extractMetadata (the page is
\* not fetched) or after it (no chapter is found)
AnalyzeFails(page, extracted) ==
    /\ mConversions < MaxConversions
    /\ mConversions' = mConversions + 1
    /\ mParser' = IF extracted THEN extractMetadata(mParser, page) ELSE mParser
    /\ mShared' = FALSE
    /\ UNCHANGED <<mForm, mOverride, mAfterParse, mHanded>>
    /\ UNCHANGED <<fvars, gvars, pipevars>>

\* the user changes a field: the input event runs updateMetaInfo on
\* currentMetaInfo, which is parser.metaInfo after updateUIWithResults
TypeField(f, text) ==
    /\ mForm' = [mForm EXCEPT ![f] = text]
    /\ mForm' # mForm
    /\ mOverride' = [mOverride EXCEPT ![f] = text]
    /\ mParser' = IF mShared THEN updateMetaInfo(mForm') ELSE mParser
    /\ UNCHANGED <<mShared, mAfterParse, mHanded, mConversions>>
    /\ UNCHANGED <<fvars, gvars, pipevars>>

\* handlePackEpub with a chapter selected: updateMetaInfo, then generateEpub is
\* handed currentMetaInfo
PackMeta ==
    /\ mShared
    /\ mParser' = updateMetaInfo(mForm)
    /\ mHanded' = [done |-> TRUE, meta |-> mParser', override |-> mOverride,
                   extracted |-> mAfterParse.meta]
    /\ UNCHANGED <<mShared, mForm, mOverride, mAfterParse, mConversions>>
    /\ UNCHANGED <<fvars, gvars, pipevars>>

InitMeta ==
    /\ dPage = <<>>
    /\ dUrl = Url("", "")
    /\ dOut = NotRun
    /\ InitOwn
    /\ InitPipeline

NextMeta ==
    \/ \E page \in {pg \in StartPages : WellFormedPage(pg)} : Analyze(page)
    \/ \E page \in {pg \in StartPages : WellFormedPage(pg)}, extracted \in BOOLEAN :
           AnalyzeFails(page, extracted)
    \/ \E f \in MetaFields, text \in UserTexts : TypeField(f, text)
    \/ PackMeta

SpecMeta == InitMeta /\ [][NextMeta]_vars


(***************************************************************************)
(* Parser.fetchChapterContent: the choice of the content element of a      *)
(* fetched chapter page, given as the list of its elements in document     *)
(* order.                                                                  *)
(***************************************************************************)
\* Parser.getDefaultRules().contentSelector before join(','), which is also what
\* split(',') gives back
DefaultContentChain ==
    <<".chapter-content", ".entry-content", "article", ".post-content", ".content">>

\* siteRules.contentSelector as the list of its comma-separated alternatives: the
\* three site entries have '.chapter-content', any other host the default rules
ContentSelectorOf(hostname) ==
    IF hostname \in {"wuxiaworld.com", "royalroad.com", "novelupdates.com"}
    THEN <<".chapter-content">>
    ELSE DefaultContentChain

\* does the element match one content selector
MatchesContent(el, selector) ==
    IF selector = "article" THEN el.tag = "article"
    ELSE "." \o el.className = selector

\* dom.querySelector(selector): the first element in document order that matches
\* one of the alternatives of the selector; 0 for null
querySelector(dom, alternatives) ==
    LET hits == {i \in 1..Len(dom) :
                    \E k \in 1..Len(alternatives) : MatchesContent(dom[i], alternatives[k])}
    IN  IF hits = {} THEN 0 ELSE CHOOSE i \in hits : \A j \in hits : i <= j

RECURSIVE FirstOfChain(_, _, _)
\* the loop over defaultSelectors: the element of the first selector that matches
FirstOfChain(dom, chain, k) ==
    IF k > Len(chain) THEN 0
    ELSE IF querySelector(dom, <<chain[k]>>) # 0 THEN querySelector(dom, <<chain[k]>>)
         ELSE FirstOfChain(dom, chain, k + 1)

\* contentElement after the three attempts; 0 makes the attempt throw 'Could not
\* find chapter content'
ContentElement(dom, hostname) ==
    LET bySite == querySelector(dom, ContentSelectorOf(hostname))
        byChain == IF bySite = 0 THEN FirstOfChain(dom, DefaultContentChain, 1) ELSE bySite
    IN  IF byChain = 0 THEN findLargestTextBlock(dom) ELSE byChain

\* the elements of a chapter page
ContentBlocks ==
    [tag : {"div", "article"},
     className : {"", "chapter-content", "entry-content", "content"},
     id : {""}, text : {500}, html : {806, 1250}]

\* chapter pages of up to MaxBlocks elements, on a host with a site entry and on
\* one without
InitContent ==
    InitFunction([dom : UNION {NodesOfLength(ContentBlocks, n) : n \in 0..MaxBlocks},
                  host : Hosts])

ChooseContentElement ==
    /\ fRes = NotApplied
    /\ fRes' = [done |-> TRUE, element |-> ContentElement(fArg.dom, fArg.host)]
    /\ UNCHANGED <<fArg, gvars, mvars, pipevars>>

SpecContent == InitContent /\ [][ChooseContentElement]_vars


(***************************************************************************)
(* The rule set of a URL.  A hostname is a sequence of pieces of text, of  *)
(* which "www." is one, so that the places where it occurs are positions.  *)
(***************************************************************************)
\* number of pieces of a hostname
MaxHostPieces == 3

HostPieces == {"www.", "WWW.", "wuxia", "world.com", "example.org"}

\* the keys of Parser.siteSpecificRules that can be made of the pieces
SiteRuleKeys == {<<"wuxia", "world.com">>}

\* new URL(url).hostname: the URL parser lower-cases the host
hostnameOf(pieces) == [i \in 1..Len(pieces) |-> IF pieces[i] = "WWW." THEN "www." ELSE pieces[i]]

\* hostname.replace('www.', ''): the first occurrence, wherever it is
ReplaceFirstWww(host) ==
    LET at == {i \in 1..Len(host) : host[i] = "www."}
    IN  IF at = {} THEN host
        ELSE LET first == CHOOSE i \in at : \A j \in at : i <= j
             IN  SubSeq(host, 1, first - 1) \o SubSeq(host, first + 1, Len(host))

\* this.siteSpecificRules[hostname] || this.getDefaultRules()
RulesFor(pieces) ==
    LET hostname == ReplaceFirstWww(hostnameOf(pieces))
    IN  IF hostname \in SiteRuleKeys THEN hostname ELSE <<"default">>

InitRules == InitFunction(UNION {NodesOfLength(HostPieces, n) : n \in 1..MaxHostPieces})

LookUpRules ==
    /\ fRes = NotApplied
    /\ fRes' = [done |-> TRUE, rules |-> RulesFor(fArg)]
    /\ UNCHANGED <<fArg, gvars, mvars, pipevars>>

SpecRules == InitRules /\ [][LookUpRules]_vars

(***************************************************************************)
(* Properties.                                                             *)
(***************************************************************************)
\* the absolute form of an anchor's href on the drawn page
AbsoluteForm(href) ==
    IF href.abs THEN Url(href.host, href.path) ELSE Url(dUrl.host, href.path)

\* the anchors discovery worked on, recovered from the page
DiscoveredLinks == AllChapterLinks(dPage, dUrl.host)

\* C1: the chapter list extractChapters leaves holds no two chapters with the same
\* resolved URL; each chapter's URL is the absolute form of its anchor's href, and
\* of the anchors that resolve to one URL the first is the one kept.
C1_NoDuplicateUrls ==
    dOut.ran =>
        /\ \A i, j \in 1..Len(dOut.chapters) :
              i # j => dOut.chapters[i].url # dOut.chapters[j].url
        /\ \A i \in 1..Len(dOut.chapters) :
              LET c == dOut.chapters[i]
              IN  /\ c.index + 1 \in 1..Len(DiscoveredLinks)
                  /\ c.url = AbsoluteForm(DiscoveredLinks[c.index + 1].href)
                  /\ \A k \in 1..c.index :
                        \/ DiscoveredLinks[k].href = NoHref
                        \/ AbsoluteForm(DiscoveredLinks[k].href) # c.url

\* C1 witness: two anchors written differently (relative, absolute) resolve to one
\* URL and a single chapter is kept for them.
C1_Witness ==
    /\ dOut.ran
    /\ Len(dOut.chapters) = 1
    /\ \E i, j \in 1..Len(DiscoveredLinks) :
          /\ i < j
          /\ DiscoveredLinks[i].href # DiscoveredLinks[j].href
          /\ DiscoveredLinks[i].href # NoHref /\ DiscoveredLinks[j].href # NoHref
          /\ AbsoluteForm(DiscoveredLinks[i].href) = AbsoluteForm(DiscoveredLinks[j].href)

\* the pairwise order C8 asks of a chapter list
PairwiseOrdered(list) ==
    \A p, q \in 1..Len(list) :
        p < q =>
            IF /\ HasNumber(list[p].title) /\ HasNumber(list[q].title)
               /\ FirstNumber(list[p].title) # FirstNumber(list[q].title)
            THEN FirstNumber(list[p].title) < FirstNumber(list[q].title)
            ELSE list[p].index < list[q].index

\* no title without an integer lies, in discovery order, between two titles with
\* integers that are equal or out of numeric order
NoUnnumberedBetweenInversion(list) ==
    \A a, b, c \in 1..Len(list) :
        ~ /\ HasNumber(list[a].title) /\ HasNumber(list[b].title)
          /\ ~HasNumber(list[c].title)
          /\ list[a].index < list[c].index /\ list[c].index < list[b].index
          /\ FirstNumber(list[a].title) >= FirstNumber(list[b].title)

\* C8 as stated: in every list discovery returns, two titles with different first
\* integers are in numeric order and every other pair is in discovery order.
C8_PairwiseOrderAlways ==
    (dOut.ran /\ ~dOut.threw) => PairwiseOrdered(dOut.chapters)

\* C8 amended: the pairwise order holds for every list in which no title without an
\* integer lies between two numbered titles that are equal or out of numeric order
\* (so for lists whose titles all hold an integer, and for lists where none does).
C8_PairwiseOrderWhenConsistent ==
    (dOut.ran /\ ~dOut.threw /\ NoUnnumberedBetweenInversion(dOut.chapters))
        => PairwiseOrdered(dOut.chapters)

\* C8 witness: anchors 'chapter 2', 'chapter 1', 'chapter 10' come out as 1, 2, 10.
C8_Witness ==
    /\ dOut.ran
    /\ [k \in 1..Len(dPage) |-> dPage[k].text] =
          << <<"chapter", " ", "2">>, <<"chapter", " ", "1">>, <<"chapter", " ", "1", "0">> >>
    /\ [k \in 1..Len(dOut.chapters) |-> dOut.chapters[k].title] =
          << <<"chapter", " ", "1">>, <<"chapter", " ", "2">>, <<"chapter", " ", "1", "0">> >>
    /\ [k \in 1..Len(dOut.chapters) |-> dOut.chapters[k].index] = <<1, 0, 2>>

Settled(chapter) == chapter.status \in {"completed", "error"}

\* the call of fetchChapterContent for chapter i of conversion r is over
CallOver(r, i) == pc[r] = "done" \/ (pc[r] = "fetching" /\ idx[r] > i)

\* C3: a chapter gets at most 3 attempts; when an attempt succeeds (the call
\* returns) no further attempt is made, so k attempts were made if it is the k-th;
\* when all 3 fail the chapter is settled at 'error' with the message of the third
\* failure.
C3_RetryCeiling ==
    \A r \in Runs : \A i \in 1..Len(chs[r]) :
        /\ tried[r][i] <= 3
        /\ returnedAt[r][i] # 0 => tried[r][i] = returnedAt[r][i]
        /\ (CallOver(r, i) /\ returnedAt[r][i] = 0) =>
              /\ tried[r][i] = 3
              /\ chs[r][i].status = "error"
              /\ chs[r][i].error = lastMsg[r][i]

\* C3 witness: one chapter succeeded at its second attempt, another failed three
\* times, the last time because the content was too short.
C3_Witness ==
    \E r \in Runs : \E i, j \in 1..Len(chs[r]) :
        /\ CallOver(r, i) /\ returnedAt[r][i] = 2 /\ chs[r][i].status = "completed"
        /\ CallOver(r, j) /\ tried[r][j] = 3 /\ chs[r][j].status = "error"
        /\ chs[r][j].error = "Extracted content is too short or empty"

\* C4: when fetchAllChapters is through, every chapter of its list was attempted
\* and is settled, whatever became of the chapters before it.
C4_BatchNotAborted ==
    \A r \in Runs :
        pc[r] = "done" =>
            \A i \in 1..Len(chs[r]) : tried[r][i] >= 1 /\ Settled(chs[r][i])

\* C4 witness: the first chapter ended at 'error', the second was fetched after it.
C4_Witness ==
    \E r \in Runs :
        /\ pc[r] = "done" /\ Len(chs[r]) >= 2
        /\ chs[r][1].status = "error" /\ chs[r][2].status = "completed"

\* no chapter of the current list is both 'completed' and checked
NothingToPackage ==
    ~ \E i \in 1..Len(CurrentList) :
          CurrentList[i].status = "completed" /\ i <= Len(checked) /\ checked[i]

\* C5: a Generate-EPUB click made while no chapter is 'completed' and checked ends
\* with the error message, writes no entry and returns no container.
C5_NothingToPackage ==
    [][(packClicks' # packClicks /\ NothingToPackage) =>
          /\ zip' = zip
          /\ epubBlob' = epubBlob
          /\ packPc'[packClicks'] = "rejected"
          /\ packResult' = "Please select at least one chapter"]_vars

\* C5 witness: every chapter of the current list is at 'error', Generate EPUB was
\* clicked, and nothing was ever written.
C5_Witness ==
    /\ Len(CurrentList) > 0
    /\ \A i \in 1..Len(CurrentList) : CurrentList[i].status = "error"
    /\ packClicks > 0 /\ packResult = "Please select at least one chapter"
    /\ zip = EmptyZip /\ \A c \in Packs : ~epubBlob[c].produced

\* C6 as stated: the container holds a manifest item, an itemref and a navigation
\* point only for the chapters that were 'completed' and checked when it was
\* generated, every chapter document in it is the document of one of these
\* chapters, and none is a placeholder.
C6_OnlyIncludedChapters ==
    \A c \in Packs : epubBlob[c].produced =>
        LET n == Len(epubBlob[c].chapters)
            e == epubBlob[c].entries
        IN  /\ Len(e.manifest) = n /\ Len(e.spine) = n /\ Len(e.navMap) = n
            /\ \A k \in DOMAIN e.docs :
                  /\ \E j \in 1..n :
                        /\ e.docs[k].title = escapeXml(epubBlob[c].chapters[j].title)
                        /\ e.docs[k].body = processChapterContent(epubBlob[c].chapters[j].content)
                  /\ e.docs[k].body # <<"p", "No content available.">>

\* C2 as stated: in the container a generateEpub call returns, the spine, the
\* manifest, the navigation map and the chapter documents follow the chapter list
\* given to that call position by position, with playOrder = position.
C2_SpineFollowsChapters ==
    \A c \in Packs : epubBlob[c].produced =>
        LET n == Len(epubBlob[c].chapters)
            e == epubBlob[c].entries
        IN  /\ Len(e.spine) = n /\ Len(e.manifest) = n /\ Len(e.navMap) = n
            /\ \A i \in 1..n :
                  /\ e.manifest[i].id = i
                  /\ e.spine[i].idref = e.manifest[i].id
                  /\ e.manifest[i].href \in DOMAIN e.docs
                  /\ e.docs[e.manifest[i].href].title = escapeXml(epubBlob[c].chapters[i].title)
                  /\ e.docs[e.manifest[i].href].body =
                        processChapterContent(epubBlob[c].chapters[i].content)
                  /\ e.navMap[i].playOrder = i
                  /\ e.navMap[i].src = e.manifest[i].href
                  /\ e.navMap[i].label = escapeXml(epubBlob[c].chapters[i].title)

\* no element of the page is matched by a site or default selector, and no anchor
\* with an href names a chapter in its text or href
NoStrategyYields(in) ==
    \A k \in 1..Len(in.dom) :
        /\ \A s \in 1..Len(SiteChapterSelectors(in.url.host)) :
              ~Matches(in.dom[k], SiteChapterSelectors(in.url.host)[s])
        /\ \A s \in 1..Len(DefaultChapterSelectors) :
              ~Matches(in.dom[k], DefaultChapterSelectors[s])
        /\ ~ /\ in.dom[k].tag = "a" /\ in.dom[k].href # NoHref
             /\ \/ TextHasChapterToken(in.dom[k].text)
                \/ HrefHasChapterToken(in.dom[k].href)

\* C7: a conversion whose start page gives no link to any strategy fails with the
\* no-chapters error and stays failed; it gets no chapter list, starts no chapter
\* fetch, and its (empty) list never becomes the list a container is packed from.
C7_NoChaptersFound ==
    \A r \in Runs :
        (pc[r] \notin {"unused", "parsing"} /\ failure[r] # "FetchFailure"
           /\ NoStrategyYields(input[r])) =>
            /\ pc[r] = "failed"
            /\ failure[r] = "NoChaptersFound"
            /\ chs[r] = <<>> /\ tried[r] = <<>>
            /\ idx[r] = 0 /\ successCount[r] = 0 /\ errorCount[r] = 0
            /\ currentChapters # r
            /\ \A c \in Packs : \A k \in 1..Len(packSelected[c]) : packSelected[c][k][1] # r

\* C7 witness: the latest conversion failed for want of chapters, Generate EPUB
\* was enabled and clicked, and it produced nothing.
C7_Witness ==
    \E r \in Runs :
        /\ started = r /\ pc[r] = "failed" /\ failure[r] = "NoChaptersFound"
        /\ NoStrategyYields(input[r])
        /\ packEnabled /\ packResult = "Please select at least one chapter"
        /\ \A c \in Packs : ~epubBlob[c].produced

\* C9 as stated: a chapter's status moves only pending -> loading and
\* loading -> completed | error.
C9_StatusLifecycle ==
    [][\A r \in Runs : \A i \in 1..Len(chs[r]) :
          (i <= Len(chs'[r]) /\ chs'[r][i].status # chs[r][i].status) =>
              <<chs[r][i].status, chs'[r][i].status>> \in
                  {<<"pending", "loading">>, <<"loading", "completed">>,
                   <<"loading", "error">>}]_vars

\* C10: within one fetchAllChapters, a chapter is attempted only when every chapter
\* before it in the list is settled and its call is over, and the chapters after
\* the one being fetched are untouched: one chapter at a time, in list order.
C10_OneChapterAtATime ==
    \A r \in Runs : \A j \in 1..Len(chs[r]) :
        /\ tried[r][j] > 0 =>
              \A k \in 1..(j - 1) : Settled(chs[r][k]) /\ CallOver(r, k)
        /\ (pc[r] = "fetching" /\ j > idx[r]) =>
              tried[r][j] = 0 /\ chs[r][j].status = "pending"

\* C10 witness: the second chapter is being fetched after the first one ran out of
\* retries.
C10_Witness ==
    \E r \in Runs :
        /\ pc[r] = "fetching" /\ idx[r] = 2 /\ tried[r][2] = 2
        /\ chs[r][1].status = "error" /\ tried[r][1] = 3

\* does text t start with the characters of prefix
StartsWith(t, prefix) ==
    Len(t) >= Len(prefix) /\ SubSeq(t, 1, Len(prefix)) = prefix

\* the five entities and the characters they stand for
Entities ==
    { <<<<"&", "a", "m", "p", ";">>, "&">>, <<<<"&", "l", "t", ";">>, "<">>,
      <<<<"&", "g", "t", ";">>, ">">>, <<<<"&", "q", "u", "o", "t", ";">>, "\"">>,
      <<<<"&", "#", "3", "9", ";">>, "'">> }

RECURSIVE DecodeEntities(_)
\* what an XML reader makes of the text: each entity becomes its character
DecodeEntities(t) ==
    IF t = <<>> THEN <<>>
    ELSE IF \E e \in Entities : StartsWith(t, e[1])
    THEN LET e == CHOOSE x \in Entities : StartsWith(t, x[1])
         IN  <<e[2]>> \o DecodeEntities(SubSeq(t, Len(e[1]) + 1, Len(t)))
    ELSE <<Head(t)>> \o DecodeEntities(Tail(t))

\* C11: escapeXml(s) holds none of the raw characters < > " ', every & in it starts
\* one of the five entities, and decoding the entities gives s back.
C11_EscapeRoundTrip ==
    fRes.done =>
        /\ \A i \in 1..Len(fRes.out) : fRes.out[i] \notin {"<", ">", "\"", "'"}
        /\ \A i \in 1..Len(fRes.out) :
              fRes.out[i] = "&" =>
                  \E e \in Entities : StartsWith(SubSeq(fRes.out, i, Len(fRes.out)), e[1])
        /\ DecodeEntities(fRes.out) = fArg

\* C11 witness: the entity-like text '&lt;' was escaped to '&amp;lt;'.
C11_Witness ==
    /\ fRes.done
    /\ fArg = <<"&", "l", "t", ";">>
    /\ fRes.out = <<"&", "a", "m", "p", ";", "l", "t", ";">>

\* the written text is the escaped form of the field: no raw markup character,
\* every & the start of an entity, and the field is what a reader decodes
WrittenEscaped(written, field) ==
    /\ \A i \in 1..Len(written) : written[i] \notin {"<", ">", "\"", "'"}
    /\ \A i \in 1..Len(written) :
          written[i] = "&" =>
              \E e \in Entities : StartsWith(SubSeq(written, i, Len(written)), e[1])
    /\ DecodeEntities(written) = field

\* C12 as stated: title, creator, language, description, subject and the chapter
\* titles are written XML-escaped into content.opf, toc.ncx and the chapter
\* documents.
C12_FieldsEscaped ==
    fRes.done =>
        /\ WrittenEscaped(fRes.opf.title, fArg.title)
        /\ WrittenEscaped(fRes.opf.creator, fArg.author)
        /\ WrittenEscaped(fRes.opf.language, fArg.language)
        /\ WrittenEscaped(fRes.opf.description, fArg.description)
        /\ WrittenEscaped(fRes.opf.subject, fArg.subject)
        /\ WrittenEscaped(fRes.ncx.docTitle, fArg.title)
        /\ WrittenEscaped(fRes.ncx.navLabels[1], fArg.chapterTitle)
        /\ WrittenEscaped(fRes.doc.title, fArg.chapterTitle)

\* C13 as stated: when the cover reference is set and its download or embedding
\* fails, generateEpub returns a container with no cover asset and no cover entry.
C13_NoCoverOnFailure ==
    (gResult.status = "returned" /\ gResult.call.cover /\ gResult.call.fetch # "ok") =>
        /\ ~gResult.entries.coverAsset
        /\ ~gResult.entries.coverEntry

\* C17 as stated: a call whose progress callback throws or is missing returns a
\* container all the same.
C17_ProgressFireAndForget ==
    (gCalls > 0 /\ gPc = "idle" /\ gCall.callback # "works") => gResult.status = "returned"

\* C14 as stated: the extracted content is rejected as too short exactly when the
\* trimmed text of the normalized chapter body has fewer than 100 characters.
C14_TooShortByTextLength ==
    fRes.done =>
        (fRes.rejected <=>
            Len(TrimRight(TrimLeft(textContent(fRes.fragment)))) < MinContentLength)

ForbiddenNode(node) ==
    \/ node.kind = "comment"
    \/ node.kind = "element" /\ node.tag \in {"script", "style"}

RECURSIVE NoForbiddenNode(_)
NoForbiddenNode(kids) ==
    \A i \in 1..Len(kids) : ~ForbiddenNode(kids[i]) /\ NoForbiddenNode(kids[i].kids)

RECURSIVE NoEmptyElement(_)
NoEmptyElement(kids) ==
    \A i \in 1..Len(kids) :
        /\ (kids[i].kind = "element" /\ kids[i].tag # "img") => ~EmptyElement(kids[i])
        /\ NoEmptyElement(kids[i].kids)

NoBareTopLevelText(kids) ==
    \A i \in 1..Len(kids) : kids[i].kind = "text" => kids[i].text = <<>>

\* C20 as stated: the fragment extractContent returns has no script, style or
\* comment node, no element empty of text unless it is or contains an image, and
\* no bare text run at top level.
C20_ContentFragmentInvariant ==
    fRes.done =>
        /\ NoForbiddenNode(fRes.fragment)
        /\ NoEmptyElement(fRes.fragment)
        /\ NoBareTopLevelText(fRes.fragment)

\* the elements findLargestTextBlock may return: content tags, no skip pattern in
\* class or id, density above 0.5
Candidates(dom) ==
    {i \in 1..Len(dom) : dom[i].tag \in Range(contentTags) /\ isLikelyContent(dom[i])}

Longest(dom) == {i \in Candidates(dom) : \A j \in Candidates(dom) : dom[j].text <= dom[i].text}

\* C15 as stated: findLargestTextBlock returns the candidate with the longest
\* text, of several with that length the first in document order, and nothing when
\* there is no candidate.
C15_LongestFirstInDocumentOrder ==
    fRes.done =>
        IF Candidates(fArg) = {} THEN fRes.best = 0
        ELSE /\ fRes.best \in Longest(fArg)
             /\ \A j \in Longest(fArg) : fRes.best <= j

\* p <= q for percentages
NotAbove(p, q) == p[1] * q[2] <= q[1] * p[2]

\* C16 as stated: the percentages a stage reports to the progress display are
\* within 0..100 and never decrease.
C16_ProgressNonDecreasing ==
    fRes.done =>
        /\ \A i \in 1..Len(fRes.reported) :
               NotAbove(Percent(0), fRes.reported[i]) /\ NotAbove(fRes.reported[i], Percent(100))
        /\ \A i \in 1..Len(fRes.reported) - 1 :
               NotAbove(fRes.reported[i], fRes.reported[i + 1])

\* C18 as stated: every metadata field handed to generateEpub is the user's
\* override when that is not empty, and the value extracted from the start page
\* when it is.
C18_OverrideOrExtracted ==
    mHanded.done =>
        \A f \in MetaFields :
            mHanded.meta[f] = IF mHanded.override[f] # <<>> THEN mHanded.override[f]
                              ELSE mHanded.extracted[f]

\* C19 as stated: after parsePage a field the start page does not supply holds its
\* default: the placeholder for the title, en for the language, empty for the
\* author.
C19_DefaultsPerConversion ==
    mAfterParse.done =>
        /\ (~mAfterParse.page.titleFound \/ mAfterParse.page.title = <<>>)
               => mAfterParse.meta["title"] = <<"Untitled Story">>
        /\ ~mAfterParse.page.authorFound => mAfterParse.meta["author"] = <<>>
        /\ mAfterParse.meta["language"] = <<"en">>

\* C21 as stated: extractContent applied to the fragment it produced returns
\* that fragment unchanged.
C21_ExtractContentIdempotent == fRes.done => fRes.again = fRes.content

\* every chapter of conversion r is settled
AllSettled(r) == \A i \in 1..Len(chs[r]) : chs[r][i].status \in {"completed", "error"}

\* C22: when every fetch eventually returns or fails, a fetchAllChapters loop that
\* was started eventually finishes, and once it has finished every chapter of its
\* list is 'completed' or 'error'.
C22_FetchAllChaptersFinishes ==
    /\ \A r \in Runs : (pc[r] = "fetching") ~> (pc[r] = "done")
    /\ [](\A r \in Runs : pc[r] = "done" => AllSettled(r))

\* a loop has finished over a list of two chapters, one of them in error
C22_Witness ==
    \E r \in Runs :
        /\ pc[r] = "done" /\ Len(chs[r]) = 2
        /\ \E i \in 1..2 : chs[r][i].status = "error"
        /\ \E i \in 1..2 : chs[r][i].status = "completed"

\* the selectors in the order they are tried: the rule set's, then the default ones
SelectorsTried == SiteChapterSelectors(dUrl.host) \o DefaultChapterSelectors

\* the positions on the page of the elements a selector matches
MatchedBy(selector) == {i \in 1..Len(dPage) : Matches(dPage[i], selector)}

\* the positions of the anchors the aggressive scan keeps
ScanKeeps ==
    {i \in 1..Len(dPage) :
        /\ dPage[i].tag = "a" /\ dPage[i].href # NoHref
        /\ TextHasChapterToken(dPage[i].text) \/ HrefHasChapterToken(dPage[i].href)}

\* the links of the one strategy and selector that wins
WinningLinks ==
    LET yielding == {k \in 1..Len(SelectorsTried) : MatchedBy(SelectorsTried[k]) # {}}
    IN  IF yielding = {} THEN ScanKeeps
        ELSE MatchedBy(SelectorsTried[CHOOSE k \in yielding : \A j \in yielding : k <= j])

\* C23: the chapters come from the links of the first selector of the rule set
\* that matches, else of the first default selector that matches, else from the
\* aggressive scan, and from no other link; discovery fails when that gives no link.
C23_OneStrategyOneSelector ==
    dOut.ran =>
        /\ dOut.threw <=> WinningLinks = {}
        /\ {dOut.chapters[i].url : i \in 1..Len(dOut.chapters)}
               = {AbsoluteForm(dPage[i].href) : i \in {w \in WinningLinks : dPage[w].href # NoHref}}

\* C23 witness: a later selector matches a link the winning selector does not, and
\* that link gives no chapter
C23_Witness ==
    /\ dOut.ran /\ ~dOut.threw /\ Len(dOut.chapters) > 0
    /\ \E i \in 1..Len(dPage), k \in 1..Len(SelectorsTried) :
          /\ i \in MatchedBy(SelectorsTried[k]) /\ i \notin WinningLinks
          /\ dPage[i].href # NoHref
          /\ \A c \in 1..Len(dOut.chapters) : dOut.chapters[c].url # AbsoluteForm(dPage[i].href)

\* C30 as stated: extractChapters throws the no-chapters error or leaves at least
\* one chapter.
C30_NeverEmptyList == dOut.ran => (dOut.threw \/ Len(dOut.chapters) > 0)

\* the first element in document order that matches the selector, 0 for none
FirstMatch(dom, selector) ==
    LET hits == {i \in 1..Len(dom) : MatchesContent(dom[i], selector)}
    IN  IF hits = {} THEN 0 ELSE CHOOSE i \in hits : \A j \in hits : i <= j

\* the element of the earliest selector of the default chain that matches
ChainChoice(dom) ==
    LET yielding == {k \in 1..Len(DefaultContentChain) :
                        FirstMatch(dom, DefaultContentChain[k]) # 0}
    IN  IF yielding = {} THEN 0
        ELSE FirstMatch(dom, DefaultContentChain[CHOOSE k \in yielding :
                                                    \A j \in yielding : k <= j])

\* C24 as stated: the content element is the one the site entry's selector
\* selects, else the one of the earliest selector of the default chain that
\* matches, else the largest qualifying block; none of them means failure.
C24_ContentElementChoice ==
    fRes.done =>
        LET dom == fArg.dom
            site == IF Len(ContentSelectorOf(fArg.host)) = 1
                    THEN FirstMatch(dom, ContentSelectorOf(fArg.host)[1]) ELSE 0
        IN  fRes.element = IF site # 0 THEN site
                           ELSE IF ChainChoice(dom) # 0 THEN ChainChoice(dom)
                           ELSE findLargestTextBlock(dom)

\* the hostname lower-cased and without a leading "www."
WithoutLeadingWww(pieces) ==
    LET lower == hostnameOf(pieces)
    IN  IF lower[1] = "www." THEN Tail(lower) ELSE lower

\* C25 as stated: the rule set is the site entry whose key is the hostname
\* without a leading "www.", lower-cased, and the default rule set otherwise.
C25_RuleSetByHostname ==
    fRes.done =>
        fRes.rules = IF WithoutLeadingWww(fArg) \in SiteRuleKeys THEN WithoutLeadingWww(fArg)
                     ELSE <<"default">>

\* C26 as stated: the container a call returns holds the chapter documents of
\* that call's chapters and no other, and a cover asset only when that call
\* embedded one.
C26_OnlyThisCallsEntries ==
    gResult.status = "returned" =>
        /\ gResult.entries.docs = gResult.call.n
        /\ gResult.entries.coverAsset => (gResult.call.cover /\ gResult.call.fetch = "ok")

\* C29 as stated: in a returned container every chapter item of the manifest has
\* its document, and the cover meta and manifest item are there exactly when
\* OEBPS/cover.jpg is.
C29_ManifestMatchesContainer ==
    gResult.status = "returned" =>
        /\ gResult.entries.opfChapters <= gResult.entries.docs
        /\ gResult.entries.coverEntry <=> gResult.entries.coverAsset

\* C27 as stated, its first part: no two fetchAllChapters loops are under way at
\* the same time.
C27_OneFetchLoopAtATime ==
    \A r, q \in Runs : (pc[r] = "fetching" /\ pc[q] = "fetching") => r = q

\* C28 as stated: a 'pending' chapter has neither content nor error, a 'completed'
\* one has content and no error, an 'error' one has an error and no content.
C28_RecordMatchesStatus ==
    \A r \in Runs : \A i \in 1..Len(chs[r]) :
        LET c == chs[r][i]
        IN  /\ c.status = "pending" => (c.content = NoContent /\ c.error = Null)
            /\ c.status = "completed" => (c.content # NoContent /\ c.error = Null)
            /\ c.status = "error" => (c.error # Null /\ c.content = NoContent)

====
